---- MODULE Spec2Model ----
(***************************************************************************)
(* A model of the TechSprint course-platform server (src/index.js): three  *)
(* MongoDB collections (users, all-courses, enrolled-courses), the         *)
(* verifyUser / checkRole middleware chain and the request handlers.       *)
(*                                                                         *)
(* Every step of a request is one database                                 *)
(* round trip together with the handler code that runs before it (since    *)
(* the previous await) and after it (up to the next await or the           *)
(* response): code between two awaits touches no shared state, so each     *)
(* database operation is the only point where requests interleave.         *)
(* verifyIdToken is an await on the identity provider, which shares no     *)
(* state with the database, so it belongs to the step of the first         *)
(* database operation that follows it.                                     *)
(***************************************************************************)
EXTENDS Integers, Sequences, FiniteSets, TLC

\* ---- bounds of the model
NumReq == 2
MaxUsers == 2
MaxCourses == 1
MaxEnroll == 2
MaxTime == 1

\* ---- values
Emails == {"a@x.com", "b@x.com"}
Roles == {"student", "instructor"}

\* The Authorization header: absent (or not "Bearer ..."), a token that
\* verifyIdToken rejects, or a token that decodes to an email.
NoToken == "none"
BadToken == "bad"
Tokens == {NoToken, BadToken} \cup Emails

\* An id in a path or body: absent (falsy), malformed, or a well-formed
\* ObjectId; the well-formed ones are 1, 2, ...  Requests name the ids the
\* server can generate and one more, which never matches a course.
NoId == -1
BadId == 0
ObjectIds == 1..(MaxCourses + 1)
IdInputs == {BadId} \cup ObjectIds
ObjectIdIsValid(id) == id >= 1

\* req.body.role of POST /users: absent, or a role.
NoRole == "absent"
\* req.body.email / req.query.email: absent (falsy), or an email.
NoEmail == ""

NoDoc == [nil |-> TRUE]

Max(a, b) == IF a >= b THEN a ELSE b
Min(a, b) == IF a <= b THEN a ELSE b
Abs(n) == IF n < 0 THEN 0 - n ELSE n
Take(s, n) == SubSeq(s, 1, Min(n, Len(s)))

\* $set / object spread: the fields of p override those of d.
Merge(p, d) ==
  [k \in DOMAIN p \cup DOMAIN d |-> IF k \in DOMAIN p THEN p[k] ELSE d[k]]

\* ---- course payloads (req.body of POST /courses) and patches (PUT)
Instructor(e) == [name |-> "n", email |-> e, photo |-> ""]
BasePayload(e) ==
  [title |-> "T", image |-> "http://i", price |-> 0, duration |-> "1h",
   category |-> "web", description |-> "d", instructor |-> Instructor(e)]
PayloadFeatured == Merge([isFeatured |-> TRUE], BasePayload("a@x.com"))
PayloadNegPrice == [BasePayload("a@x.com") EXCEPT !.price = 0 - 1]
PayloadExtraKey == Merge([createdAt |-> 0], BasePayload("a@x.com"))
PayloadPlain == BasePayload("b@x.com")
Payloads == {PayloadFeatured, PayloadPlain, PayloadNegPrice, PayloadExtraKey}
Patches == {[isFeatured |-> FALSE]}

\* Joi: string().uri(), string().email()
IsUri(s) == s \in {"http://i"}
IsEmail(s) == s \in Emails

RequiredKeys ==
  {"title", "image", "price", "duration", "category", "description", "instructor"}
InstructorSchemaOk(i) ==
  /\ DOMAIN i \subseteq {"name", "email", "photo"}
  /\ {"name", "email"} \subseteq DOMAIN i
  /\ IsEmail(i.email)
  /\ "photo" \in DOMAIN i => (i.photo = "" \/ IsUri(i.photo))
\* courseSchema.validate(payload) reports no error.
courseSchema(p) ==
  /\ RequiredKeys \subseteq DOMAIN p
  /\ DOMAIN p \subseteq RequiredKeys \cup {"isFeatured"}
  /\ IsUri(p.image)
  /\ p.price >= 0
  /\ "isFeatured" \in DOMAIN p => p.isFeatured \in BOOLEAN
  /\ InstructorSchemaOk(p.instructor)

\* ---- state
VARIABLES
  users,        \* the users collection, in natural (insertion) order
  courses,      \* the all-courses collection: _id -> document
  nextCourseId, \* the next ObjectId insertOne generates for a course
  enrolled,     \* the enrolled-courses collection, in insertion order;
                \* a record's _id is its position
  now,          \* the clock new Date() reads
  inflight,     \* the requests waiting for a database operation: a bag
                \* (request -> how many of it), at most NumReq of them
  resp          \* the response the last step sent (NoResp: it sent none)

vars == <<users, courses, nextCourseId, enrolled, now, inflight, resp>>

\* A request in flight: the endpoint, the await it waits at, req.user.email
\* (or the body's email for POST /users), its inputs, and the new Date() it
\* read when it built the document it sends to the database (0: it read
\* none).
Request(kind, pc, email, role, id, body, at) ==
  [kind |-> kind, pc |-> pc, email |-> email, role |-> role, id |-> id,
   body |-> body, at |-> at]

\* A response: who sent it (an endpoint, or the middleware that rejected
\* the request), the status, the body's fields, and the request's inputs
\* the body answers (token, email, role, id, body).
Response(kind, status, error) ==
  [kind |-> kind, status |-> status, error |-> error, token |-> NoToken,
   email |-> NoEmail, role |-> NoRole, id |-> BadId, body |-> NoDoc,
   doc |-> NoDoc, list |-> <<>>, insertedId |-> 0, count |-> 0]
NoResp == Response("none", 0, "")

\* ---- the bag of requests in flight
InFlight == DOMAIN inflight
Size(b) ==
  LET RECURSIVE Sum(_)
      Sum(S) == IF S = {} THEN 0
                ELSE LET x == CHOOSE y \in S : TRUE IN b[x] + Sum(S \ {x})
  IN Sum(DOMAIN b)
Add(b, q) == IF q \in DOMAIN b THEN [b EXCEPT ![q] = @ + 1] ELSE (q :> 1) @@ b
Remove(b, q) ==
  IF b[q] > 1 THEN [b EXCEPT ![q] = @ - 1]
  ELSE [x \in DOMAIN b \ {q} |-> b[x]]
Pending(kind) ==
  Size([q \in {x \in InFlight : x.kind = kind} |-> inflight[q]])

\* ---- collection operations
\* users.findOne({ email }): the first match in natural order, or NoDoc.
findOneUser(coll, email) ==
  LET hits == {i \in DOMAIN coll : coll[i].email = email}
  IN IF hits = {} THEN NoDoc
     ELSE coll[CHOOSE i \in hits : \A j \in hits : i <= j]

\* enrolled.findOne({ userEmail, courseId }) finds a record.
\* (findOneEnrolledAsString: the query compares the body's string with the
\* stored ObjectId and never matches.)
findOneEnrolledAsString(coll, userEmail, courseId) == FALSE
findOneEnrolled(coll, userEmail, courseId) ==
  \E i \in DOMAIN coll :
    coll[i].userEmail = userEmail /\ coll[i].courseId = courseId

\* A stored course as a query returns it: with its _id.
WithId(coll, id) == Merge([_id |-> id], coll[id])

\* The ids of a set in natural (ascending) order.
RECURSIVE Ascending(_)
Ascending(S) ==
  IF S = {} THEN <<>>
  ELSE LET m == CHOOSE i \in S : \A j \in S : i <= j
       IN <<m>> \o Ascending(S \ {m})

\* ---- middleware (src/index.js 35-56)
\* verifyUser: 401 without a Bearer header, 403 when verifyIdToken throws,
\* otherwise req.user = decoded and next().
verifyUser(token) ==
  IF token = NoToken THEN [ok |-> FALSE, status |-> 401, error |-> "No token"]
  ELSE IF token = BadToken
       THEN [ok |-> FALSE, status |-> 403, error |-> "Invalid token"]
       ELSE [ok |-> TRUE, status |-> 200, error |-> ""]

\* checkRole(requiredRole): one users.findOne, then strict equality.
\* (checkRoleAnyUser: every registered user passes.)
checkRoleAnyUser(requiredRole, email, coll) ==
  IF findOneUser(coll, email) = NoDoc
  THEN [ok |-> FALSE, status |-> 403, error |-> "User not found"]
  ELSE [ok |-> TRUE, status |-> 200, error |-> ""]
checkRole(requiredRole, email, coll) ==
  LET found == findOneUser(coll, email)
  IN IF found = NoDoc
     THEN [ok |-> FALSE, status |-> 403, error |-> "User not found"]
     ELSE IF found.role = requiredRole
          THEN [ok |-> TRUE, status |-> 200, error |-> ""]
          ELSE [ok |-> FALSE, status |-> 403, error |-> "Forbidden: wrong role"]

InstructorKinds == {"postCourse", "putCourse", "deleteCourse", "myCourses"}
StudentKinds == {"enroll", "getEnrolled"}
GatedKinds == InstructorKinds \cup StudentKinds
RequiredRole(kind) == IF kind \in InstructorKinds THEN "instructor" ELSE "student"
\* The endpoints behind checkRole(role).
KindsFor(role) == {k \in GatedKinds : RequiredRole(k) = role}

\* The handler's code before its first await: "" when it goes on to the
\* database, otherwise the message of its 400 response.
HandlerPrefix(kind, id, body) ==
  CASE kind = "postCourse" ->
         IF courseSchema(body) THEN "" ELSE "validation"
    [] kind \in {"putCourse", "deleteCourse"} ->
         IF ObjectIdIsValid(id) THEN "" ELSE "Invalid id"
    [] kind = "enroll" ->
         IF id = NoId THEN "courseId required"
         ELSE IF ObjectIdIsValid(id) THEN "" ELSE "Invalid courseId"
    [] OTHER -> ""

\* new Date() in the arguments of the handler's first database call (164,
\* 172).
ReadsClock(kind, t) == IF kind \in {"postCourse", "putCourse"} THEN t ELSE 0

\* Where a handler waits first.
FirstPc(kind) == IF kind = "enroll" THEN "find" ELSE "handler"

\* The inputs a request of each gated kind carries.
GatedIds(kind) ==
  CASE kind \in {"putCourse", "deleteCourse"} -> IdInputs
    [] kind = "enroll" -> IdInputs \cup {NoId}
    [] OTHER -> {BadId}
GatedBodies(kind) ==
  CASE kind = "postCourse" -> Payloads
    [] kind = "putCourse" -> Patches
    [] OTHER -> {NoDoc}

\* Room for the documents the requests in flight will still insert.
RoomFor(kind) ==
  CASE kind = "postCourse" ->
         (nextCourseId - 1) + Pending("postCourse") < MaxCourses
    [] kind = "enroll" -> Len(enrolled) + Pending("enroll") < MaxEnroll
    [] kind = "postUsers" -> Len(users) + Pending("postUsers") < MaxUsers
    [] OTHER -> TRUE

\* The server takes a request when fewer than NumReq are in flight.
Accepting == Size(inflight) < NumReq

Init ==
  /\ users = <<>>
  /\ courses = <<>>
  /\ nextCourseId = 1
  /\ enrolled = <<>>
  /\ now = 0
  /\ inflight = <<>>
  /\ resp = NoResp

\* ---- User endpoints
\* POST /users up to the answer of users.findOne (92-96)
\* (PostUsersUpsert: a record that exists takes the role of the body.)
PostUsersUpsert ==
  /\ Accepting
  /\ \E email \in Emails \cup {NoEmail}, role \in Roles \cup {NoRole} :
       IF email = NoEmail
       THEN /\ resp' = Response("postUsers", 400, "Email required")
            /\ UNCHANGED <<inflight, users>>
       ELSE LET existing == findOneUser(users, email)
                given == IF role = NoRole THEN "student" ELSE role
            IN IF existing # NoDoc
               THEN /\ users' = [i \in DOMAIN users |->
                                  IF users[i].email = email
                                  THEN [users[i] EXCEPT !.role = given]
                                  ELSE users[i]]
                    /\ resp' = [Response("postUsers", 200, "") EXCEPT
                                  !.email = email, !.role = role,
                                  !.doc = [existing EXCEPT !.role = given]]
                    /\ UNCHANGED inflight
               ELSE /\ RoomFor("postUsers")
                    /\ inflight' = Add(inflight,
                         Request("postUsers", "insert", email, given,
                                 BadId, NoDoc, 0))
                    /\ resp' = NoResp
                    /\ UNCHANGED users
  /\ UNCHANGED <<courses, nextCourseId, enrolled, now>>
PostUsers ==
  /\ Accepting
  /\ \E email \in Emails \cup {NoEmail}, role \in Roles \cup {NoRole} :
       IF email = NoEmail
       THEN /\ resp' = Response("postUsers", 400, "Email required")
            /\ UNCHANGED inflight
       ELSE LET existing == findOneUser(users, email)
            IN IF existing # NoDoc
               THEN /\ resp' = [Response("postUsers", 200, "") EXCEPT
                                  !.email = email, !.role = role,
                                  !.doc = existing]
                    /\ UNCHANGED inflight
               ELSE /\ RoomFor("postUsers")
                    /\ inflight' = Add(inflight,
                         Request("postUsers", "insert", email,
                                 IF role = NoRole THEN "student" ELSE role,
                                 BadId, NoDoc, 0))
                    /\ resp' = NoResp
  /\ UNCHANGED <<users, courses, nextCourseId, enrolled, now>>

\* users.insertOne({ email, name, photo, role }) (97)
insertUser(coll, email, role) == Append(coll, [email |-> email, role |-> role])

\* POST /users: users.insertOne and the response (97-98)
PostUsersInsert(q) ==
  /\ q.kind = "postUsers" /\ q.pc = "insert"
  /\ users' = insertUser(users, q.email, q.role)
  /\ resp' = [Response("postUsers", 200, "") EXCEPT
                !.email = q.email, !.insertedId = Len(users) + 1]
  /\ inflight' = Remove(inflight, q)
  /\ UNCHANGED <<courses, nextCourseId, enrolled, now>>

\* ---- Public endpoints
\* GET /courses/:id (112-118)
GetCourse ==
  /\ Accepting
  /\ \E id \in IdInputs :
       resp' = IF ~ObjectIdIsValid(id)
               THEN Response("getCourse", 400, "Invalid id")
               ELSE IF id \notin DOMAIN courses
                    THEN [Response("getCourse", 404, "Course not found")
                            EXCEPT !.id = id]
                    ELSE [Response("getCourse", 200, "") EXCEPT
                            !.id = id, !.doc = WithId(courses, id)]
  /\ UNCHANGED <<users, courses, nextCourseId, enrolled, now, inflight>>

\* GET /featured-courses (121-134)
FeaturedDefault == 6
FeaturedCap == 100
\* req.query.limit: <<>> when absent or empty, <<n>> for the text of n.
LimitInputs == {<<>>, <<0>>, <<0 - 1>>, <<1>>, <<FeaturedCap + 1>>}
\* Math.min(parseInt(req.query.limit || '6', 10), 100)
FeaturedLimit(q) == Min(IF q = <<>> THEN FeaturedDefault ELSE q[1], FeaturedCap)

\* find({ isFeatured: true })
FeaturedIds(coll) ==
  {i \in DOMAIN coll : "isFeatured" \in DOMAIN coll[i] /\ coll[i].isFeatured = TRUE}
\* .sort({ createdAt: -1 }): every order of S that is descending in
\* createdAt (the order among equal keys is not defined).
SortedDesc(coll, S) ==
  {s \in [1..Cardinality(S) -> S] :
     /\ \A i, j \in DOMAIN s : i # j => s[i] # s[j]
     /\ \A i, j \in DOMAIN s : i < j => coll[s[i]].createdAt >= coll[s[j]].createdAt}
\* cursor.limit(n): 0 sets no limit, a negative n limits to -n.
CursorLimit(s, n) == IF n = 0 THEN s ELSE Take(s, Abs(n))
\* image: c.image || c.imageUrl || ''
Normalize(c) ==
  Merge([image |-> IF "image" \in DOMAIN c /\ c.image # "" THEN c.image
                   ELSE IF "imageUrl" \in DOMAIN c THEN c.imageUrl ELSE ""], c)

FeaturedCourses ==
  /\ Accepting
  /\ \E q \in LimitInputs, sorted \in SortedDesc(courses, FeaturedIds(courses)) :
       LET list == CursorLimit(sorted, FeaturedLimit(q))
       IN resp' = [Response("featured", 200, "") EXCEPT
                     !.body = [limit |-> q],
                     !.list = [i \in DOMAIN list |-> Normalize(WithId(courses, list[i]))]]
  /\ UNCHANGED <<users, courses, nextCourseId, enrolled, now, inflight>>

\* ---- Protected endpoints: verifyUser, checkRole(requiredRole) and the
\* handler up to its first database operation (35-56, and the head of each
\* handler at 160-221)
Start ==
  /\ Accepting
  /\ \E token \in Tokens :
       LET v == verifyUser(token)
       IN IF ~v.ok
          THEN /\ resp' = [Response("verifyUser", v.status, v.error) EXCEPT
                             !.token = token]
               /\ UNCHANGED inflight
          ELSE \E role \in Roles :
                 LET c == checkRole(role, token, users)
                 IN IF ~c.ok
                    THEN /\ resp' = [Response("checkRole", c.status, c.error)
                                       EXCEPT !.token = token, !.email = token,
                                              !.role = role]
                         /\ UNCHANGED inflight
                    ELSE \E kind \in KindsFor(role) :
                         \E id \in GatedIds(kind), body \in GatedBodies(kind) :
                           LET e == HandlerPrefix(kind, id, body)
                           IN IF e # ""
                              THEN /\ resp' = [Response(kind, 400, e) EXCEPT
                                                 !.email = token, !.id = id,
                                                 !.body = body]
                                   /\ UNCHANGED inflight
                              ELSE /\ RoomFor(kind)
                                   /\ inflight' = Add(inflight,
                                        Request(kind, FirstPc(kind), token,
                                                role, id, body,
                                                ReadsClock(kind, now)))
                                   /\ resp' = NoResp
  /\ UNCHANGED <<users, courses, nextCourseId, enrolled, now>>

AtHandler(q, kind) == q.kind = kind /\ q.pc = "handler"

\* POST /courses: insertOne({ ...payload, createdAt: new Date() }) (164-165)
\* (NewCourseNoDate: the document is stored without createdAt.)
NewCourseNoDate(payload, t) == payload
NewCourse(payload, t) == Merge([createdAt |-> t], payload)
PostCourse(q) ==
  /\ AtHandler(q, "postCourse")
  /\ courses' = (nextCourseId :> NewCourse(q.body, q.at)) @@ courses
  /\ nextCourseId' = nextCourseId + 1
  /\ resp' = [Response("postCourse", 200, "") EXCEPT
                !.email = q.email, !.insertedId = nextCourseId, !.body = q.body]
  /\ inflight' = Remove(inflight, q)
  /\ UNCHANGED <<users, enrolled, now>>

\* PUT /courses/:id: updateOne({ _id }, { $set: { ...payload, updatedAt } })
\* (172-175)
\* (updateOneUpsert: with { upsert: true } a miss inserts the patch.)
updateOneUpsert(coll, id, patch, t) ==
  IF id \in DOMAIN coll
  THEN [coll EXCEPT ![id] = Merge(Merge([updatedAt |-> t], patch), coll[id])]
  ELSE (id :> Merge([updatedAt |-> t], patch)) @@ coll
updateOne(coll, id, patch, t) ==
  IF id \in DOMAIN coll
  THEN [coll EXCEPT ![id] = Merge(Merge([updatedAt |-> t], patch), coll[id])]
  ELSE coll
PutCourse(q) ==
  /\ AtHandler(q, "putCourse")
  /\ courses' = updateOne(courses, q.id, q.body, q.at)
  /\ resp' = IF q.id \notin DOMAIN courses
             THEN [Response("putCourse", 404, "Course not found") EXCEPT
                     !.email = q.email, !.id = q.id]
             ELSE [Response("putCourse", 200, "") EXCEPT
                     !.email = q.email, !.id = q.id,
                     !.count = IF courses'[q.id] = courses[q.id] THEN 0 ELSE 1]
  /\ inflight' = Remove(inflight, q)
  /\ UNCHANGED <<users, nextCourseId, enrolled, now>>

\* DELETE /courses/:id: deleteOne({ _id }) (181-183)
deleteOne(coll, id) == [i \in DOMAIN coll \ {id} |-> coll[i]]
DeleteCourse(q) ==
  /\ AtHandler(q, "deleteCourse")
  /\ courses' = deleteOne(courses, q.id)
  /\ resp' = IF q.id \notin DOMAIN courses
             THEN [Response("deleteCourse", 404, "Course not found") EXCEPT
                     !.email = q.email, !.id = q.id]
             ELSE [Response("deleteCourse", 200, "") EXCEPT
                     !.email = q.email, !.id = q.id, !.count = 1]
  /\ inflight' = Remove(inflight, q)
  /\ UNCHANGED <<users, nextCourseId, enrolled, now>>

\* GET /my-courses: find({ 'instructor.email': email }) (187-189)
findByInstructor(coll, email) ==
  LET ids == Ascending({i \in DOMAIN coll :
                 /\ "instructor" \in DOMAIN coll[i]
                 /\ coll[i].instructor.email = email})
  IN [k \in DOMAIN ids |-> WithId(coll, ids[k])]
MyCourses(q) ==
  /\ AtHandler(q, "myCourses")
  /\ resp' = [Response("myCourses", 200, "") EXCEPT
                !.email = q.email, !.list = findByInstructor(courses, q.email)]
  /\ inflight' = Remove(inflight, q)
  /\ UNCHANGED <<users, courses, nextCourseId, enrolled, now>>

\* POST /enroll: enrolled.findOne, the 409, and the document to insert
\* (198-200)
EnrollFind(q) ==
  /\ q.kind = "enroll" /\ q.pc = "find"
  /\ IF findOneEnrolled(enrolled, q.email, q.id)
     THEN /\ resp' = [Response("enroll", 409, "Already enrolled") EXCEPT
                        !.email = q.email, !.id = q.id]
          /\ inflight' = Remove(inflight, q)
     ELSE /\ resp' = NoResp
          /\ inflight' = Add(Remove(inflight, q), [q EXCEPT !.pc = "insert", !.at = now])
  /\ UNCHANGED <<users, courses, nextCourseId, enrolled, now>>

\* enrolled.insertOne({ userEmail, courseId, enrolledAt: new Date() }) (200-201)
insertEnrollment(coll, userEmail, courseId, t) ==
  Append(coll, [userEmail |-> userEmail, courseId |-> courseId, enrolledAt |-> t])

\* POST /enroll: enrolled.insertOne(doc) and the response (201-202)
EnrollInsert(q) ==
  /\ q.kind = "enroll" /\ q.pc = "insert"
  /\ enrolled' = insertEnrollment(enrolled, q.email, q.id, q.at)
  /\ resp' = [Response("enroll", 200, "") EXCEPT
                !.email = q.email, !.id = q.id, !.insertedId = Len(enrolled) + 1]
  /\ inflight' = Remove(inflight, q)
  /\ UNCHANGED <<users, courses, nextCourseId, now>>

\* GET /enrolled: the aggregation pipeline (207-219)
\* $match: { userEmail: email }, each record with its _id
Match(coll, email) ==
  LET ids == Ascending({i \in DOMAIN coll : coll[i].userEmail = email})
  IN [k \in DOMAIN ids |-> Merge([_id |-> ids[k]], coll[ids[k]])]
\* $lookup from all-courses, localField courseId, foreignField _id, as course
Lookup(docs, coll) ==
  [k \in DOMAIN docs |->
     Merge([course |-> IF docs[k].courseId \in DOMAIN coll
                       THEN <<WithId(coll, docs[k].courseId)>> ELSE <<>>],
           docs[k])]
\* $unwind: '$course': one document per element of the array, none for an
\* empty array
\* (UnwindKeepEmpty: with preserveNullAndEmptyArrays a document whose array
\* is empty is kept, without the field.)
RECURSIVE UnwindKeepEmpty(_)
UnwindKeepEmpty(docs) ==
  IF docs = <<>> THEN <<>>
  ELSE LET d == Head(docs)
       IN (IF d.course = <<>> THEN <<[d EXCEPT !.course = NoDoc]>>
           ELSE [k \in DOMAIN d.course |-> [d EXCEPT !.course = d.course[k]]])
            \o UnwindKeepEmpty(Tail(docs))
RECURSIVE Unwind(_)
Unwind(docs) ==
  IF docs = <<>> THEN <<>>
  ELSE LET d == Head(docs)
       IN [k \in DOMAIN d.course |-> [d EXCEPT !.course = d.course[k]]]
            \o Unwind(Tail(docs))
\* $project: { course: 1, enrolledAt: 1 } (and _id, which is kept by default)
Project(docs) ==
  [k \in DOMAIN docs |->
     [_id |-> docs[k]._id, course |-> docs[k].course,
      enrolledAt |-> docs[k].enrolledAt]]
aggregate(coll, crs, email) == Project(Unwind(Lookup(Match(coll, email), crs)))

Enrolled(q) ==
  /\ AtHandler(q, "getEnrolled")
  /\ resp' = [Response("getEnrolled", 200, "") EXCEPT
                !.email = q.email, !.list = aggregate(enrolled, courses, q.email)]
  /\ inflight' = Remove(inflight, q)
  /\ UNCHANGED <<users, courses, nextCourseId, enrolled, now>>

\* Time passes.
Tick ==
  /\ now < MaxTime
  /\ now' = now + 1
  /\ UNCHANGED <<users, courses, nextCourseId, enrolled, inflight, resp>>

\* A request arrives and runs up to its first wait or its response.
Arrive ==
  \/ PostUsers
  \/ GetCourse
  \/ FeaturedCourses
  \/ Start

\* The database answers a request in flight and its handler runs on.
Resume(q) ==
  \/ PostUsersInsert(q)
  \/ PostCourse(q)
  \/ PutCourse(q)
  \/ DeleteCourse(q)
  \/ MyCourses(q)
  \/ EnrollFind(q)
  \/ EnrollInsert(q)
  \/ Enrolled(q)

\* Requests are served concurrently: up to NumReq in flight, answered in
\* any order.
Next == Tick \/ Arrive \/ \E q \in InFlight : Resume(q)
Spec == Init /\ [][Next]_vars

\* Requests one after the other: a request arrives only when none is in
\* flight.
SeqNext == Tick \/ (inflight = <<>> /\ Arrive) \/ \E q \in InFlight : Resume(q)
SeqSpec == Init /\ [][SeqNext]_vars

\* ---- properties

\* A step of a request (every step but Tick): resp' is what this step sent.
Served == now' = now

RecordsFor(coll, email) == {i \in DOMAIN coll : coll[i].email = email}
EnrollmentsOf(coll, userEmail, courseId) ==
  {i \in DOMAIN coll :
     coll[i].userEmail = userEmail /\ coll[i].courseId = courseId}
HasRole(coll, email, role) ==
  \E i \in DOMAIN coll : coll[i].email = email /\ coll[i].role = role
\* Request q has been answered in this step.
Answered(q) == q \in InFlight /\ inflight' = Remove(inflight, q)

\* C1: in every reachable state, whatever the interleaving of POST /enroll
\* requests, the enrolled-courses collection holds at most one record for
\* each (userEmail, courseId) pair.
NoDoubleEnrollment ==
  \A e \in Emails, c \in ObjectIds :
    Cardinality(EnrollmentsOf(enrolled, e, c)) <= 1

\* C2: with requests served one after the other, an enroll call by a
\* student for a well-formed courseId is answered 409 exactly when a record
\* for the pair exists, and then inserts nothing; otherwise it is answered
\* 200 with the id of the one record it inserted; either way exactly one
\* record for the pair exists afterward.
EnrollTwiceStep ==
  /\ \A q \in InFlight :
       (q.kind = "enroll" /\ Answered(q)) =>
         /\ resp'.kind = "enroll" /\ resp'.email = q.email /\ resp'.id = q.id
         /\ resp'.status = IF EnrollmentsOf(enrolled, q.email, q.id) # {}
                           THEN 409 ELSE 200
         /\ Cardinality(EnrollmentsOf(enrolled', q.email, q.id)) = 1
  /\ (Served /\ resp'.kind = "enroll" /\ resp'.status = 409) =>
       /\ enrolled' = enrolled
       /\ EnrollmentsOf(enrolled, resp'.email, resp'.id) # {}
  /\ (Served /\ resp'.kind = "enroll" /\ resp'.status = 200) =>
       /\ EnrollmentsOf(enrolled, resp'.email, resp'.id) = {}
       /\ EnrollmentsOf(enrolled', resp'.email, resp'.id) = {resp'.insertedId}
       /\ \A i \in DOMAIN enrolled : enrolled'[i] = enrolled[i]
       /\ DOMAIN enrolled' = DOMAIN enrolled \cup {resp'.insertedId}
EnrollTwice == [][EnrollTwiceStep]_vars
\* The second call has been answered 409 and the pair has its one record.
EnrollTwiceWitness ==
  /\ resp.kind = "enroll" /\ resp.status = 409
  /\ Cardinality(EnrollmentsOf(enrolled, resp.email, resp.id)) = 1

\* C3: a role-gated handler waits for or runs its database operation only
\* for a verified email that has a user record with exactly the required
\* role; courses and enrollments change only in such a handler's step; a
\* verified email without a user record is answered 403 by checkRole; a
\* missing or unverifiable token is answered by verifyUser (401, 403),
\* before checkRole reads the users; a rejection changes no collection.
RoleGateStep ==
  /\ \A q \in DOMAIN inflight' :
       q.kind \in GatedKinds =>
         q.email \in Emails /\ HasRole(users', q.email, RequiredRole(q.kind))
  /\ (courses' # courses \/ enrolled' # enrolled) =>
       \E q \in InFlight :
         /\ q.kind \in GatedKinds /\ Answered(q)
         /\ HasRole(users, q.email, RequiredRole(q.kind))
  /\ (Served /\ resp'.kind \in GatedKinds) =>
       HasRole(users, resp'.email, RequiredRole(resp'.kind))
  /\ (Served /\ resp'.kind = "verifyUser") =>
       /\ resp'.token \in {NoToken, BadToken}
       /\ resp'.status = IF resp'.token = NoToken THEN 401 ELSE 403
       /\ UNCHANGED <<users, courses, enrolled, inflight>>
  /\ (Served /\ resp'.kind = "checkRole") =>
       /\ resp'.token \in Emails
       /\ resp'.status = 403
       /\ IF RecordsFor(users, resp'.email) = {}
          THEN resp'.error = "User not found"
          ELSE /\ resp'.error = "Forbidden: wrong role"
               /\ \E i \in RecordsFor(users, resp'.email) :
                    users[i].role # resp'.role
       /\ UNCHANGED <<users, courses, enrolled, inflight>>
RoleGate == [][RoleGateStep]_vars
\* A verified token whose email has no user record has been answered 403
\* while courses of an instructor are stored.
RoleGateWitness ==
  /\ resp.kind = "checkRole" /\ resp.status = 403
  /\ resp.error = "User not found"
  /\ DOMAIN courses # {}

\* C4: a stored user record never changes or disappears; POST /users for an
\* email that has a record when the handler looks it up returns that record,
\* whatever role the body carries, and leaves the users as they are: it
\* goes on to insert only when it found no record.
RoleKeptStep ==
  /\ \A i \in DOMAIN users : i \in DOMAIN users' /\ users'[i] = users[i]
  /\ (Served /\ resp'.kind = "postUsers" /\ resp'.doc # NoDoc) =>
       /\ users' = users
       /\ resp'.status = 200
       /\ \E i \in RecordsFor(users, resp'.email) : resp'.doc = users[i]
  /\ \A q \in DOMAIN inflight' :
       (q.kind = "postUsers" /\ inflight' = Add(inflight, q)) =>
         RecordsFor(users, q.email) = {}
RoleKept == [][RoleKeptStep]_vars
\* POST /users with role instructor has returned the stored student record.
RoleKeptWitness ==
  /\ resp.kind = "postUsers" /\ resp.doc # NoDoc
  /\ resp.role = "instructor" /\ resp.doc.role = "student"
  /\ \A i \in RecordsFor(users, resp.email) : users[i].role = "student"

\* C5: in every reachable state, whatever the interleaving of POST /users
\* requests, the users collection holds at most one record per email.
OneRecordPerEmail ==
  \A e \in Emails : Cardinality(RecordsFor(users, e)) <= 1

\* C6: a PUT /courses/:id request changes a stored course only when the
\* caller's verified email equals that course's instructor.email.
OnlyOwnerUpdatesStep ==
  (Served /\ resp'.kind = "putCourse" /\ courses' # courses) =>
    resp'.email = courses[resp'.id].instructor.email
OnlyOwnerUpdates == [][OnlyOwnerUpdatesStep]_vars

\* C7: PUT /courses/:id by an authorized instructor with a well-formed id
\* is answered 404 exactly when no stored course has the id, and then the
\* courses collection is left exactly as it was.
UpdateMissingStep ==
  \A q \in InFlight :
    (q.kind = "putCourse" /\ Answered(q)) =>
      /\ resp'.kind = "putCourse" /\ resp'.id = q.id
      /\ resp'.status = IF q.id \in DOMAIN courses THEN 200 ELSE 404
      /\ q.id \notin DOMAIN courses => courses' = courses
UpdateMissing == [][UpdateMissingStep]_vars
\* An update of an id that matches no course has been answered 404 while
\* other courses are stored.
UpdateMissingWitness ==
  /\ resp.kind = "putCourse" /\ resp.status = 404
  /\ resp.id \notin DOMAIN courses
  /\ DOMAIN courses # {}

\* C8: with requests served one after the other, GET /courses/:id with the
\* id POST /courses has just returned is answered with a document that has
\* the payload's fields with the payload's values, the id and a createdAt
\* timestamp, and no other field; POST /courses is answered 200 only for a
\* payload the schema accepts, and a payload it rejects is answered 400 and
\* inserts nothing.
ValidPayloads == {PayloadFeatured, PayloadPlain}
InsertThenGetStep ==
  /\ (Served /\ resp.kind = "postCourse" /\ resp.status = 200
        /\ resp'.kind = "getCourse" /\ resp'.id = resp.insertedId) =>
       /\ resp'.status = 200
       /\ DOMAIN resp'.doc = DOMAIN resp.body \cup {"_id", "createdAt"}
       /\ \A k \in DOMAIN resp.body : resp'.doc[k] = resp.body[k]
       /\ resp'.doc._id = resp.insertedId
       /\ resp'.doc.createdAt \in 0..now
  /\ (Served /\ resp'.kind = "postCourse") =>
       IF resp'.body \in ValidPayloads
       THEN /\ resp'.status = 200
            /\ DOMAIN courses' = DOMAIN courses \cup {resp'.insertedId}
            /\ resp'.insertedId \notin DOMAIN courses
       ELSE /\ resp'.status = 400
            /\ courses' = courses
InsertThenGet == [][InsertThenGetStep]_vars
\* A course has been read back as it was inserted.
InsertThenGetWitness ==
  /\ resp.kind = "getCourse" /\ resp.status = 200
  /\ \E p \in ValidPayloads :
       /\ DOMAIN resp.doc = DOMAIN p \cup {"_id", "createdAt"}
       /\ \A k \in DOMAIN p : resp.doc[k] = p[k]

\* C9: listFeatured returns at most min(limit, 100) documents (6 by
\* default; a bound below 0 admits none), all with isFeatured = true,
\* ordered by createdAt descending, and no omitted featured course is newer
\* than a returned one.
FeaturedWithinLimit ==
  resp.kind = "featured" =>
    LET q == resp.body.limit
        limit == IF q = <<>> THEN FeaturedDefault ELSE q[1]
        list == resp.list
        returned == {list[k]._id : k \in DOMAIN list}
    IN /\ Len(list) <= Max(0, Min(limit, FeaturedCap))
       /\ \A k \in DOMAIN list : list[k].isFeatured = TRUE
       /\ \A j, k \in DOMAIN list :
            j < k => list[j].createdAt >= list[k].createdAt
       /\ \A i \in FeaturedIds(courses) \ returned, k \in DOMAIN list :
            courses[i].createdAt <= list[k].createdAt

====
